---- MODULE Spec2Model ----
(***************************************************************************)
(* Model of the ottoway backend: the Express routers for projects and      *)
(* contractors, the ensureUser shadow-record helper they share, and the    *)
(* relational store (Prisma) and identity provider (Clerk) they call.      *)
(*                                                                         *)
(* A request occupies a slot; every step of a handler is one awaited call  *)
(* completing (identity-provider lookup or one store query) followed by    *)
(* the handler's synchronous continuation up to its next await or its      *)
(* response. Steps of different requests interleave freely.                *)
(*                                                                         *)
(* The source holds several revisions of each router; `router` names the   *)
(* revision that serves the traffic of a behaviour.                        *)
(***************************************************************************)
EXTENDS Integers, Sequences, FiniteSets, TLC

(***************************************************************************)
(* Bounds of the model.                                                    *)
(***************************************************************************)
\* requests received in a behaviour
MaxRequests == 3

(***************************************************************************)
(* JavaScript values. A string is a sequence of one-character strings.     *)
(***************************************************************************)
Undefined == [t |-> "undefined"]
Null == [t |-> "null"]
Str(s) == [t |-> "string", v |-> s]
Num(n) == [t |-> "number", v |-> n]
Bool(b) == [t |-> "boolean", v |-> b]
NaN == [t |-> "NaN"]
DateOf(s) == [t |-> "Date", v |-> s]
List(l) == [t |-> "array", v |-> l]

\* JavaScript truthiness, as used by `!x`, `x ? a : b`, `a || b`, `a && b`
Truthy(x) ==
  CASE x.t = "undefined" -> FALSE
    [] x.t = "null" -> FALSE
    [] x.t = "NaN" -> FALSE
    [] x.t = "string" -> Len(x.v) > 0
    [] x.t = "number" -> x.v # 0
    [] x.t = "boolean" -> x.v
    [] OTHER -> TRUE

\* a || b
OrElse(a, b) == IF Truthy(a) THEN a ELSE b

IsSpace(c) == c = " "

RECURSIVE TrimStart(_)
TrimStart(s) ==
  IF Len(s) > 0 /\ IsSpace(Head(s)) THEN TrimStart(Tail(s)) ELSE s

RECURSIVE TrimEnd(_)
TrimEnd(s) ==
  IF Len(s) > 0 /\ IsSpace(s[Len(s)]) THEN TrimEnd(SubSeq(s, 1, Len(s) - 1)) ELSE s

\* String.prototype.trim
Trim(s) == TrimEnd(TrimStart(s))

LowerChar(c) ==
  CASE c = "A" -> "a"
    [] c = "B" -> "b"
    [] c = "X" -> "x"
    [] c = "Y" -> "y"
    [] c = "Z" -> "z"
    [] OTHER -> c

\* String.prototype.toLowerCase
ToLowerCase(s) == [i \in 1..Len(s) |-> LowerChar(s[i])]

\* x?.trim(): undefined and null short-circuit to undefined
OptTrim(x) == IF x.t \in {"undefined", "null"} THEN Undefined ELSE Str(Trim(x.v))

\* the character class [^\s@]
PlainChar(c) == ~IsSpace(c) /\ c # "@"

AllPlain(s, lo, hi) == \A k \in lo..hi : PlainChar(s[k])

\* /^[^\s@]+@[^\s@]+\.[^\s@]+$/.test(s)
EmailRegexTest(s) ==
  \E i \in 2..Len(s) : \E j \in (i + 2)..(Len(s) - 1) :
    /\ s[i] = "@"
    /\ s[j] = "."
    /\ AllPlain(s, 1, i - 1)
    /\ AllPlain(s, i + 1, j - 1)
    /\ AllPlain(s, j + 1, Len(s))

DigitVal(c) ==
  CASE c = "0" -> 0 [] c = "1" -> 1 [] c = "2" -> 2 [] c = "3" -> 3
    [] c = "4" -> 4 [] c = "5" -> 5 [] c = "6" -> 6 [] c = "7" -> 7
    [] c = "8" -> 8 [] c = "9" -> 9 [] OTHER -> -1

RECURSIVE DigitsValue(_, _)
DigitsValue(s, acc) ==
  IF Len(s) = 0 \/ DigitVal(Head(s)) < 0 THEN acc
  ELSE DigitsValue(Tail(s), 10 * acc + DigitVal(Head(s)))

\* parseFloat on a number or on a string of decimal digits (leading blanks
\* skipped, parsing stops at the first non-digit)
ParseFloat(x) ==
  CASE x.t = "number" -> x
    [] x.t = "string" ->
         LET s == TrimStart(x.v)
         IN IF Len(s) = 0 \/ DigitVal(Head(s)) < 0 THEN NaN ELSE Num(DigitsValue(s, 0))
    [] OTHER -> NaN

(***************************************************************************)
(* Actors, identity provider, shadow User rows.                            *)
(***************************************************************************)
\* subject ids carried by verified tokens (req.auth.userId)
U1 == <<"u", "1">>
U2 == <<"u", "2">>

(***************************************************************************)
(* requireAuth. A session token is modelled by the subject it was signed   *)
(* for: "u1" and "u2" verify, "n" verifies to claims without a subject,    *)
(* anything else makes verifyToken throw.                                  *)
(***************************************************************************)
\* 'Bearer '
BearerPrefix == <<"B", "e", "a", "r", "e", "r", " ">>

\* Authorization headers of incoming requests: absent, another scheme
\* (seven characters before the token), a token that does not verify, a
\* token without subject, and the session tokens of U1 and U2
Headers ==
  { Undefined,
    Str(<<"B", "a", "s", "i", "c", " ", " ">> \o U1),
    Str(BearerPrefix \o <<"x">>),
    Str(BearerPrefix \o <<"n">>),
    Str(BearerPrefix \o U1),
    Str(BearerPrefix \o U2) }

\* String.prototype.startsWith
StartsWith(s, p) == Len(s) >= Len(p) /\ SubSeq(s, 1, Len(p)) = p

\* String.prototype.substring(n)
Substring(s, n) == SubSeq(s, n + 1, Len(s))

\* await clerkClient.verifyToken(token, ...): the session claims, or it throws
VerifyToken(token) ==
  IF token \in {U1, U2}
    THEN [ok |-> TRUE, sessionClaims |-> [sub |-> Str(token)]]
    ELSE IF token = <<"n">>
      THEN [ok |-> TRUE, sessionClaims |-> [sub |-> Str(<< >>)]]
      ELSE [ok |-> FALSE, sessionClaims |-> Null]

\* a requireAuth that leaves out the test of sessionClaims.sub
RequireAuthNoSubject(authHeader) ==
  IF ~Truthy(authHeader) \/ ~StartsWith(authHeader.v, BearerPrefix)
    THEN [next |-> FALSE, status |-> 401,
          body |-> [error |-> "Unauthorized", message |-> "No authorization token provided"]]
    ELSE LET v == VerifyToken(Substring(authHeader.v, 7))
         IN IF ~v.ok
              THEN [next |-> FALSE, status |-> 401,
                    body |-> [error |-> "Unauthorized", message |-> "Authentication failed"]]
              ELSE [next |-> TRUE, auth |-> [userId |-> v.sessionClaims.sub.v]]

\* requireAuth: the 401 it answers, or next() with req.auth attached
RequireAuth(authHeader) ==
  IF ~Truthy(authHeader) \/ ~StartsWith(authHeader.v, BearerPrefix)
    THEN [next |-> FALSE, status |-> 401,
          body |-> [error |-> "Unauthorized", message |-> "No authorization token provided"]]
    ELSE LET v == VerifyToken(Substring(authHeader.v, 7))
         IN IF ~v.ok
              THEN [next |-> FALSE, status |-> 401,
                    body |-> [error |-> "Unauthorized", message |-> "Authentication failed"]]
              ELSE IF ~Truthy(v.sessionClaims.sub)
                THEN [next |-> FALSE, status |-> 401,
                      body |-> [error |-> "Unauthorized", message |-> "Invalid token"]]
                ELSE [next |-> TRUE, auth |-> [userId |-> v.sessionClaims.sub.v]]

\* the headers requireAuth lets through
Admitted == {h \in Headers : RequireAuth(h).next}

\* req.auth.userId of the requests that reach a handler
Actors == {RequireAuth(h).auth.userId : h \in Admitted}

\* the Authorization header of a request that reached its handler as actor
AuthHeader(actor) == CHOOSE h \in Admitted : RequireAuth(h).auth.userId = actor

\* `${clerkUserId}@temp.com`
TempEmail(clerkUserId) ==
  Str(clerkUserId \o <<"@", "t", "e", "m", "p", ".", "c", "o", "m">>)

DefaultName == Str(<<"U", "s", "e", "r">>)

\* the profile clerkClient.users.getUser answers when it succeeds
Profiles ==
  { [emailAddresses |-> << [emailAddress |-> Str(<<"p", "@", "q", ".", "c">>)] >>,
     firstName |-> Str(<<"A", "l">>), lastName |-> Null, username |-> Null] }

\* clerkUser.emailAddresses[0]?.emailAddress || `${clerkUserId}@temp.com`
ProfileEmail(clerkUser, clerkUserId) ==
  OrElse(IF Len(clerkUser.emailAddresses) > 0
           THEN clerkUser.emailAddresses[1].emailAddress
           ELSE Undefined,
         TempEmail(clerkUserId))

\* firstName ? `${firstName} ${lastName || ''}`.trim() : username || 'User'
ProfileName(clerkUser) ==
  IF Truthy(clerkUser.firstName)
    THEN Str(Trim(clerkUser.firstName.v \o <<" ">>
                  \o OrElse(clerkUser.lastName, Str(<< >>)).v))
    ELSE OrElse(clerkUser.username, DefaultName)

(***************************************************************************)
(* The relational store. A call returns [ok, code, table, row]: the table  *)
(* after the call, the row it returns, and the Prisma error code when it   *)
(* throws. Each call is one atomic query.                                  *)
(***************************************************************************)
Done(table, row) == [ok |-> TRUE, code |-> "", table |-> table, row |-> row]
Thrown(code, table) == [ok |-> FALSE, code |-> code, table |-> table, row |-> Null]

\* the row with the fields named in data replaced (partial update)
Merge(row, data) ==
  [f \in DOMAIN row |-> IF f \in DOMAIN data THEN data[f] ELSE row[f]]

NoData == [f \in {} |-> Null]

\* unique index on User.clerkId
UserClerkIdTaken(us, clerkId) == \E u \in us : u.clerkId = clerkId

\* prisma.user.create
UserCreate(us, data) ==
  IF UserClerkIdTaken(us, data.clerkId)
    THEN Thrown("P2002", us)
    ELSE Done(us \cup {data}, data)

\* an upsert that inserts without looking for the row
UserUpsertInsert(us, clerkId, update, create) == Done(us \cup {create}, create)

\* prisma.user.upsert({ where: { clerkId }, update, create })
UserUpsert(us, clerkId, update, create) ==
  IF UserClerkIdTaken(us, clerkId)
    THEN LET old == CHOOSE u \in us : u.clerkId = clerkId
             new == Merge(old, update)
         IN Done((us \ {old}) \cup {new}, new)
    ELSE UserCreate(us, create)

\* a store that does not enforce the foreign key
OwnerExistsUnchecked(us, userId) == TRUE

\* foreign key Project.userId / Contractor.userId -> User.clerkId
OwnerExists(us, userId) == \E u \in us : u.clerkId = userId

\* the `include: { user: { select: { name, email } } }` join
UserOf(us, userId) ==
  IF UserClerkIdTaken(us, userId)
    THEN LET u == CHOOSE u \in us : u.clerkId = userId
         IN [name |-> u.name, email |-> u.email]
    ELSE Null

(***************************************************************************)
(* State.                                                                  *)
(***************************************************************************)
VARIABLES
  router,       \* the router revision serving this behaviour's traffic
  users,        \* User table: set of rows [clerkId, email, name]
  projects,     \* Project table: id -> row
  contractors,  \* Contractor table: id -> row
  nextId,       \* next primary key / creation time
  received,     \* requests received so far
  req           \* request slots: handler position, inputs, locals, response

vars == <<router, users, projects, contractors, nextId, received, req>>

\* concurrent requests
Slots == {1, 2}

Routers == {"projects", "projects0", "contractors", "contractorsB", "contractors0"}

Idle ==
  [pc |-> "idle", op |-> "", header |-> Undefined, actor |-> << >>, id |-> 0, body |-> Null,
   email |-> Null, name |-> Null, user |-> Null, resp |-> Null]

\* User rows the persistent store holds when the process starts: U2 has
\* signed in before (its row was written by an earlier ensureUser), U1 has not
SeedUsers ==
  { [clerkId |-> U2, email |-> Str(<<"p", "@", "q", ".", "c">>), name |-> Str(<<"A", "l">>)] }

Init ==
  /\ router \in Routers
  /\ users = SeedUsers
  /\ projects = << >>
  /\ contractors = << >>
  /\ nextId = 1
  /\ received = 0
  /\ req = [r \in Slots |-> Idle]

\* a slot shows the response just sent until the next step of any request
Live == [s \in Slots |-> IF req[s].pc = "done" THEN Idle ELSE req[s]]

Vacant(r) == req[r].pc \in {"idle", "done"}

\* a request is received in the first vacant slot (slots are interchangeable)
Free(r) ==
  /\ received < MaxRequests
  /\ Vacant(r)
  /\ \A s \in Slots : s < r => ~Vacant(s)

\* the request as the handler is entered: requireAuth has attached
\* req.auth.userId = actor
Recv(op, actor, id, body) ==
  [Idle EXCEPT !.pc = "entered", !.op = op, !.actor = actor, !.id = id, !.body = body,
               !.header = IF op = "GET /public" THEN Undefined ELSE AuthHeader(actor)]

\* the handler of request q awaits its next call at pc
Await(r, q, pc) == req' = [Live EXCEPT ![r] = [q EXCEPT !.pc = pc]]

\* res.status(status).json(body) ends request q; its locals are dropped
Reply(r, q, status, body) ==
  req' = [Live EXCEPT ![r] =
            [Idle EXCEPT !.pc = "done", !.op = q.op, !.header = q.header,
                         !.actor = q.actor, !.id = q.id,
                         !.body = q.body,
                         !.resp = [status |-> status, body |-> body]]]

\* ids a request may name: the id of a row that exists or existed, or an
\* id that no row ever has (0)
Ids == 0..(nextId - 1)

\* row plus the joined `user` object
WithUser(row, us) ==
  [f \in DOMAIN row \cup {"user"} |->
     IF f = "user" THEN UserOf(us, row.userId) ELSE row[f]]

\* the fields kept by a `select`
Select(row, fields) == [f \in fields |-> row[f]]

Rows(table) == {table[i] : i \in DOMAIN table}

\* every row of a findMany result with the joined `user` object
AllWithUser(rows, us) == [i \in 1..Len(rows) |-> WithUser(rows[i], us)]

\* every row of a findMany result cut down by a `select`
AllSelect(rows, fields) == [i \in 1..Len(rows) |-> Select(rows[i], fields)]

\* prisma.<model>.delete({ where: { id } })
RowDelete(table, id) ==
  IF id \in DOMAIN table
    THEN Done([i \in DOMAIN table \ {id} |-> table[i]], table[id])
    ELSE Thrown("P2025", table)

\* Prisma treats an undefined field of `data` as not given: the column
\* takes its default (NULL for the nullable columns)
Given(x) == IF x.t = "undefined" THEN Null ELSE x

(***************************************************************************)
(* ensureUser (identical copies in each router file that has it).          *)
(***************************************************************************)
\* what a handler's catch block answers when ensureUser or a store call
\* throws: the contractor routes that test error.code answer P2002 with 409
Catch(op, code) ==
  IF router \in {"contractors", "contractorsB"} /\ op \in {"POST /", "PATCH /:id"}
       /\ code = "P2002"
    THEN [status |-> 409, body |-> [error |-> "Contractor already exists"]]
    ELSE [status |-> 500, body |-> [error |-> "Failed"]]

\* await clerkClient.users.getUser(clerkUserId), the first await of
\* ensureUser: it answers a profile, from which email and name are computed,
\* or it throws and the catch block runs
EnsureUserGetUser(r, q) ==
  \/ \E clerkUser \in Profiles :
       req' = [Live EXCEPT ![r] =
                 [q EXCEPT !.pc = "upsert",
                           !.email = ProfileEmail(clerkUser, q.actor),
                           !.name = ProfileName(clerkUser)]]
  \/ Await(r, q, "fallback")

\* the upsert of the try block
EnsureUserTryUpsert(us, clerkUserId, email, name) ==
  UserUpsert(us, clerkUserId,
             [email |-> email, name |-> name],
             [clerkId |-> clerkUserId, email |-> email, name |-> name])

\* a catch block that creates the placeholder row unconditionally
EnsureUserCatchCreate(us, clerkUserId) ==
  UserCreate(us, [clerkId |-> clerkUserId, email |-> TempEmail(clerkUserId),
                  name |-> DefaultName])

\* a catch block whose upsert also writes the placeholders on update
EnsureUserCatchOverwrite(us, clerkUserId) ==
  UserUpsert(us, clerkUserId,
             [email |-> TempEmail(clerkUserId), name |-> DefaultName],
             [clerkId |-> clerkUserId, email |-> TempEmail(clerkUserId),
              name |-> DefaultName])

\* the upsert of the catch block
EnsureUserCatchUpsert(us, clerkUserId) ==
  UserUpsert(us, clerkUserId,
             NoData,
             [clerkId |-> clerkUserId, email |-> TempEmail(clerkUserId),
              name |-> DefaultName])

\* return await prisma.user.upsert(...) in the try block; when it throws,
\* the catch block runs
EnsureUserUpsert(r) ==
  /\ req[r].pc = "upsert"
  /\ LET res == EnsureUserTryUpsert(users, req[r].actor, req[r].email, req[r].name)
     IN IF res.ok
          THEN /\ users' = res.table
               /\ req' = [Live EXCEPT ![r].pc = "main", ![r].user = res.row]
          ELSE /\ users' = users
               /\ Await(r, req[r], "fallback")
  /\ UNCHANGED <<router, projects, contractors, nextId, received>>

\* return await prisma.user.upsert(...) in the catch block; when it throws,
\* ensureUser throws into the handler's catch block
EnsureUserFallback(r) ==
  /\ req[r].pc = "fallback"
  /\ LET res == EnsureUserCatchUpsert(users, req[r].actor)
     IN IF res.ok
          THEN /\ users' = res.table
               /\ req' = [Live EXCEPT ![r].pc = "main", ![r].user = res.row]
          ELSE /\ users' = users
               /\ LET c == Catch(req[r].op, res.code)
                  IN Reply(r, req[r], c.status, c.body)
  /\ UNCHANGED <<router, projects, contractors, nextId, received>>

(***************************************************************************)
(* Request bodies.                                                         *)
(***************************************************************************)
Planning == Str(<<"P", "L", "A", "N", "N", "I", "N", "G">>)
InProgress == Str(<<"I", "N", "_", "P", "R", "O", "G", "R", "E", "S", "S">>)

PBody(name, description, address, budget, status, startDate, endDate, isPublic) ==
  [name |-> name, description |-> description, address |-> address,
   budget |-> budget, status |-> status, startDate |-> startDate,
   endDate |-> endDate, isPublic |-> isPublic]

\* bodies of POST /api/projects
ProjectPostBodies ==
  { PBody(Str(<<" ", "D", "k">>), Str(<<"X", " ">>), Str(<<"2", " ", "M">>),
          Str(<<"1", "2">>), InProgress, Str(<<"d", "1">>), Undefined, Bool(TRUE)),
    PBody(Str(<<"G", "a">>), Undefined, Str(<<"1", " ", "A">>),
          Undefined, Undefined, Undefined, Undefined, Undefined),
    PBody(Str(<< >>), Undefined, Str(<<"1", " ", "M">>),
          Undefined, Undefined, Undefined, Undefined, Undefined) }

\* bodies of PATCH /api/projects/:id (a body may carry fields the handler
\* does not read: the first names another owner)
ProjectPatchBodies ==
  { PBody(Str(<<"Y", " ">>), Undefined, Undefined,
          Undefined, Undefined, Undefined, Undefined, Undefined)
      @@ [userId |-> Str(U2)],
    PBody(Undefined, Str(<< >>), Undefined,
          Num(0), InProgress, Undefined, Str(<<"d", "2">>), Bool(TRUE)) }

(***************************************************************************)
(* The Project table.                                                      *)
(***************************************************************************)
\* column defaults of the Project table
ProjectDefaults == [description |-> Null, isPublic |-> Bool(FALSE)]

\* prisma.project.create({ data }): the foreign key must hold
ProjectCreate(table, us, id, data) ==
  IF ~OwnerExists(us, data.userId)
    THEN Thrown("P2003", table)
    ELSE LET row == [f \in DOMAIN data \cup DOMAIN ProjectDefaults \cup {"id", "createdAt"} |->
                       CASE f = "id" -> id
                         [] f = "createdAt" -> id
                         [] f = "userId" -> data.userId
                         [] f \in DOMAIN data -> Given(data[f])
                         [] OTHER -> ProjectDefaults[f]]
         IN Done([i \in DOMAIN table \cup {id} |-> IF i = id THEN row ELSE table[i]], row)

\* an update that writes the row whether or not it exists (an upsert)
ProjectUpdateUpsert(table, id, data) ==
  LET row == IF id \in DOMAIN table THEN Merge(table[id], data) ELSE data
  IN Done([i \in DOMAIN table \cup {id} |-> IF i = id THEN row ELSE table[i]], row)

\* prisma.project.update({ where: { id }, data })
ProjectUpdate(table, id, data) ==
  IF id \in DOMAIN table
    THEN LET row == Merge(table[id], data)
         IN Done([table EXCEPT ![id] = row], row)
    ELSE Thrown("P2025", table)

RECURSIVE NewestFirst(_)
\* orderBy: { createdAt: 'desc' }
NewestFirst(rows) ==
  IF rows = {} THEN << >>
  ELSE LET m == CHOOSE x \in rows : \A y \in rows : y.createdAt <= x.createdAt
       IN <<m>> \o NewestFirst(rows \ {m})

(***************************************************************************)
(* Router "projects": the current revision of routes/projects.             *)
(***************************************************************************)
\* a public listing without the where clause
PublicRowsAll(table) == Rows(table)

\* where: { isPublic: true }
PublicRows(table) == {p \in Rows(table) : p.isPublic = Bool(TRUE)}

PublicFields ==
  {"id", "name", "description", "status", "address", "budget", "startDate",
   "endDate", "createdAt"}

\* GET /public: no auth; findMany({ where: { isPublic: true }, select })
ProjectsPublic(r) ==
  /\ router = "projects"
  /\ Free(r)
  /\ LET hit == PublicRows(projects)
     IN Reply(r, Recv("GET /public", << >>, 0, Null), 200, AllSelect(NewestFirst(hit), PublicFields))
  /\ received' = received + 1
  /\ UNCHANGED <<router, users, projects, contractors, nextId>>

\* GET /: ensureUser ...
ProjectsList(r) ==
  /\ router = "projects"
  /\ Free(r)
  /\ \E actor \in Actors : EnsureUserGetUser(r, Recv("GET /", actor, 0, Null))
  /\ received' = received + 1
  /\ UNCHANGED <<router, users, projects, contractors, nextId>>

\* ... then findMany({ where: { userId }, include: user })
ProjectsListFindMany(r) ==
  /\ router = "projects"
  /\ req[r].pc = "main" /\ req[r].op = "GET /"
  /\ LET hit == {p \in Rows(projects) : p.userId = req[r].actor}
     IN Reply(r, req[r], 200, AllWithUser(NewestFirst(hit), users))
  /\ UNCHANGED <<router, users, projects, contractors, nextId, received>>

\* an ownership check that tests only that the row exists
ProjectsOwnerCheckExistsOnly(table, id, clerkUserId) ==
  IF id \notin DOMAIN table
    THEN [status |-> 404, body |-> [error |-> "Project not found"]]
    ELSE Null

\* the ownership check of GET /:id, PATCH /:id and DELETE /:id on the row
\* findUnique answered: the response that ends the request, or Null
ProjectsOwnerCheck(table, id, clerkUserId) ==
  IF id \notin DOMAIN table
    THEN [status |-> 404, body |-> [error |-> "Project not found"]]
    ELSE IF table[id].userId # clerkUserId
           THEN [status |-> 403, body |-> [error |-> "Access denied"]]
           ELSE Null

\* GET /:id: findUnique, 404 when absent, 403 when owned by another user
ProjectsGet(r) ==
  /\ router = "projects"
  /\ Free(r)
  /\ \E actor \in Actors, id \in Ids :
       LET q == Recv("GET /:id", actor, id, Null)
           c == ProjectsOwnerCheck(projects, id, actor)
       IN IF c # Null THEN Reply(r, q, c.status, c.body)
          ELSE Reply(r, q, 200, WithUser(projects[id], users))
  /\ received' = received + 1
  /\ UNCHANGED <<router, users, projects, contractors, nextId>>

\* GET /:id/status
ProjectsStatus(r) ==
  /\ router = "projects"
  /\ Free(r)
  /\ \E actor \in Actors, id \in Ids :
       LET q == Recv("GET /:id/status", actor, id, Null)
           c == ProjectsOwnerCheck(projects, id, actor)
       IN IF c # Null THEN Reply(r, q, c.status, c.body)
          ELSE Reply(r, q, 200, [projectId |-> id,
                                 currentStatus |-> projects[id].status,
                                 history |-> << >>])
  /\ received' = received + 1
  /\ UNCHANGED <<router, users, projects, contractors, nextId>>

\* the `data` of prisma.project.create in POST /
ProjectsPostData(body, clerkUserId) ==
  [name |-> Str(Trim(body.name.v)),
   description |-> OrElse(OptTrim(body.description), Null),
   address |-> Str(Trim(body.address.v)),
   budget |-> IF Truthy(body.budget) THEN ParseFloat(body.budget) ELSE Null,
   startDate |-> IF Truthy(body.startDate) THEN DateOf(body.startDate.v) ELSE Null,
   endDate |-> IF Truthy(body.endDate) THEN DateOf(body.endDate.v) ELSE Null,
   isPublic |-> Bool(body.isPublic = Bool(TRUE)),
   userId |-> clerkUserId,
   status |-> Planning]

\* the synchronous validation of POST /: the 400 it answers, or Null
ProjectsPostValidate(body) ==
  IF ~Truthy(body.name) \/ ~Truthy(body.address)
    THEN [status |-> 400, body |-> [error |-> "Validation failed"]]
    ELSE Null

\* POST /: validation, ensureUser ...
ProjectsPost(r) ==
  /\ router = "projects"
  /\ Free(r)
  /\ \E actor \in Actors, body \in ProjectPostBodies :
       LET q == Recv("POST /", actor, 0, body)
           v == ProjectsPostValidate(body)
       IN IF v # Null THEN Reply(r, q, v.status, v.body)
          ELSE EnsureUserGetUser(r, q)
  /\ received' = received + 1
  /\ UNCHANGED <<router, users, projects, contractors, nextId>>

\* ... then create, answered 201
ProjectsPostCreate(r) ==
  /\ router = "projects"
  /\ req[r].pc = "main" /\ req[r].op = "POST /"
  /\ LET res == ProjectCreate(projects, users, nextId,
                              ProjectsPostData(req[r].body, req[r].actor))
     IN IF res.ok
          THEN /\ projects' = res.table
               /\ nextId' = nextId + 1
               /\ Reply(r, req[r], 201, WithUser(res.row, users))
          ELSE /\ UNCHANGED <<projects, nextId>>
               /\ LET c == Catch(req[r].op, res.code) IN Reply(r, req[r], c.status, c.body)
  /\ UNCHANGED <<router, users, contractors, received>>

\* the updateData object built by PATCH /:id
\* a PATCH that writes description whether or not the body carries it
ProjectsPatchFieldsDescription(body) ==
  {g \in DOMAIN body \cap {"name", "description", "address", "budget", "status",
                           "startDate", "endDate", "isPublic"} : body[g] # Undefined}
    \cup {"description"}

\* the fields PATCH /:id writes: those it destructures from req.body with
\* `x !== undefined`
ProjectsPatchFields(body) ==
  {g \in DOMAIN body \cap {"name", "description", "address", "budget", "status",
                           "startDate", "endDate", "isPublic"} : body[g] # Undefined}

\* an update that writes every field of req.body (userId as the column
\* holds it)
ProjectsPatchDataSpread(body) ==
  [f \in {g \in DOMAIN body : body[g] # Undefined} |->
     IF f = "userId" THEN body[f].v ELSE body[f]]

ProjectsPatchData(body) ==
  [f \in ProjectsPatchFields(body) |->
     CASE f = "name" -> Str(Trim(body.name.v))
       [] f = "description" -> OrElse(OptTrim(body.description), Null)
       [] f = "address" -> Str(Trim(body.address.v))
       [] f = "budget" -> IF Truthy(body.budget) THEN ParseFloat(body.budget) ELSE Null
       [] f = "status" -> body.status
       [] f = "startDate" ->
            IF Truthy(body.startDate) THEN DateOf(body.startDate.v) ELSE Null
       [] f = "endDate" ->
            IF Truthy(body.endDate) THEN DateOf(body.endDate.v) ELSE Null
       [] f = "isPublic" -> Bool(body.isPublic = Bool(TRUE))]

\* PATCH /:id: findUnique and the ownership check ...
ProjectsPatch(r) ==
  /\ router = "projects"
  /\ Free(r)
  /\ \E actor \in Actors, id \in Ids, body \in ProjectPatchBodies :
       LET q == Recv("PATCH /:id", actor, id, body)
           c == ProjectsOwnerCheck(projects, id, actor)
       IN IF c # Null THEN Reply(r, q, c.status, c.body) ELSE Await(r, q, "write")
  /\ received' = received + 1
  /\ UNCHANGED <<router, users, projects, contractors, nextId>>

\* ... then update({ where: { id }, data: updateData })
ProjectsPatchUpdate(r) ==
  /\ router = "projects"
  /\ req[r].pc = "write" /\ req[r].op = "PATCH /:id"
  /\ LET res == ProjectUpdate(projects, req[r].id, ProjectsPatchData(req[r].body))
     IN IF res.ok
          THEN /\ projects' = res.table
               /\ Reply(r, req[r], 200, WithUser(res.row, users))
          ELSE /\ projects' = projects
               /\ LET c == Catch(req[r].op, res.code) IN Reply(r, req[r], c.status, c.body)
  /\ UNCHANGED <<router, users, contractors, nextId, received>>

\* DELETE /:id: findUnique and the ownership check ...
ProjectsDelete(r) ==
  /\ router = "projects"
  /\ Free(r)
  /\ \E actor \in Actors, id \in Ids :
       LET q == Recv("DELETE /:id", actor, id, Null)
           c == ProjectsOwnerCheck(projects, id, actor)
       IN IF c # Null THEN Reply(r, q, c.status, c.body) ELSE Await(r, q, "write")
  /\ received' = received + 1
  /\ UNCHANGED <<router, users, projects, contractors, nextId>>

\* ... then delete({ where: { id } }), acknowledged with the id
ProjectsDeleteDelete(r) ==
  /\ router = "projects"
  /\ req[r].pc = "write" /\ req[r].op = "DELETE /:id"
  /\ LET res == RowDelete(projects, req[r].id)
     IN IF res.ok
          THEN /\ projects' = res.table
               /\ Reply(r, req[r], 200,
                        [success |-> TRUE, message |-> "Project deleted successfully",
                         id |-> req[r].id])
          ELSE /\ projects' = projects
               /\ LET c == Catch(req[r].op, res.code) IN Reply(r, req[r], c.status, c.body)
  /\ UNCHANGED <<router, users, contractors, nextId, received>>

ProjectsNext(r) ==
  \/ ProjectsPublic(r)
  \/ ProjectsList(r) \/ ProjectsListFindMany(r)
  \/ ProjectsGet(r)
  \/ ProjectsStatus(r)
  \/ ProjectsPost(r) \/ ProjectsPostCreate(r)
  \/ ProjectsPatch(r) \/ ProjectsPatchUpdate(r)
  \/ ProjectsDelete(r) \/ ProjectsDeleteDelete(r)

(***************************************************************************)
(* Router "projects0": the first revision of routes/projects (no           *)
(* ensureUser, no joins, request fields stored as received).               *)
(***************************************************************************)
PublicFields0 ==
  {"id", "name", "description", "status", "address", "startDate", "endDate",
   "createdAt"}

Projects0Public(r) ==
  /\ router = "projects0"
  /\ Free(r)
  /\ LET hit == PublicRows(projects)
     IN Reply(r, Recv("GET /public", << >>, 0, Null), 200, AllSelect(NewestFirst(hit), PublicFields0))
  /\ received' = received + 1
  /\ UNCHANGED <<router, users, projects, contractors, nextId>>

Projects0List(r) ==
  /\ router = "projects0"
  /\ Free(r)
  /\ \E actor \in Actors :
       Reply(r, Recv("GET /", actor, 0, Null), 200,
             NewestFirst({p \in Rows(projects) : p.userId = actor}))
  /\ received' = received + 1
  /\ UNCHANGED <<router, users, projects, contractors, nextId>>

Projects0Get(r) ==
  /\ router = "projects0"
  /\ Free(r)
  /\ \E actor \in Actors, id \in Ids :
       LET q == Recv("GET /:id", actor, id, Null)
           c == ProjectsOwnerCheck(projects, id, actor)
       IN IF c # Null THEN Reply(r, q, c.status, c.body)
          ELSE Reply(r, q, 200, projects[id])
  /\ received' = received + 1
  /\ UNCHANGED <<router, users, projects, contractors, nextId>>

\* the `data` of prisma.project.create in the first revision's POST /
Projects0PostData(body, userId) ==
  [name |-> body.name,
   description |-> body.description,
   address |-> body.address,
   budget |-> IF Truthy(body.budget) THEN ParseFloat(body.budget) ELSE Null,
   startDate |-> IF Truthy(body.startDate) THEN DateOf(body.startDate.v) ELSE Null,
   endDate |-> IF Truthy(body.endDate) THEN DateOf(body.endDate.v) ELSE Null,
   userId |-> userId,
   status |-> Planning]

\* POST /: validation ...
Projects0Post(r) ==
  /\ router = "projects0"
  /\ Free(r)
  /\ \E actor \in Actors, body \in ProjectPostBodies :
       LET q == Recv("POST /", actor, 0, body)
           v == ProjectsPostValidate(body)
       IN IF v # Null THEN Reply(r, q, v.status, v.body) ELSE Await(r, q, "main")
  /\ received' = received + 1
  /\ UNCHANGED <<router, users, projects, contractors, nextId>>

\* ... then create
Projects0PostCreate(r) ==
  /\ router = "projects0"
  /\ req[r].pc = "main" /\ req[r].op = "POST /"
  /\ LET res == ProjectCreate(projects, users, nextId,
                              Projects0PostData(req[r].body, req[r].actor))
     IN IF res.ok
          THEN /\ projects' = res.table
               /\ nextId' = nextId + 1
               /\ Reply(r, req[r], 201, res.row)
          ELSE /\ UNCHANGED <<projects, nextId>>
               /\ LET c == Catch(req[r].op, res.code) IN Reply(r, req[r], c.status, c.body)
  /\ UNCHANGED <<router, users, contractors, received>>

\* the `data` spread of the first revision's PATCH /:id
Projects0PatchData(body) ==
  [f \in {g \in DOMAIN body :
            \/ g \in {"name", "address", "status", "startDate", "endDate"} /\ Truthy(body[g])
            \/ g \in {"description", "budget"} /\ body[g] # Undefined} |->
     CASE f = "budget" -> IF Truthy(body.budget) THEN ParseFloat(body.budget) ELSE Null
       [] f \in {"startDate", "endDate"} -> DateOf(body[f].v)
       [] OTHER -> body[f]]

Projects0Patch(r) ==
  /\ router = "projects0"
  /\ Free(r)
  /\ \E actor \in Actors, id \in Ids, body \in ProjectPatchBodies :
       LET q == Recv("PATCH /:id", actor, id, body)
           c == ProjectsOwnerCheck(projects, id, actor)
       IN IF c # Null THEN Reply(r, q, c.status, c.body) ELSE Await(r, q, "write")
  /\ received' = received + 1
  /\ UNCHANGED <<router, users, projects, contractors, nextId>>

Projects0PatchUpdate(r) ==
  /\ router = "projects0"
  /\ req[r].pc = "write" /\ req[r].op = "PATCH /:id"
  /\ LET res == ProjectUpdate(projects, req[r].id, Projects0PatchData(req[r].body))
     IN IF res.ok
          THEN /\ projects' = res.table
               /\ Reply(r, req[r], 200, res.row)
          ELSE /\ projects' = projects
               /\ LET c == Catch(req[r].op, res.code) IN Reply(r, req[r], c.status, c.body)
  /\ UNCHANGED <<router, users, contractors, nextId, received>>

Projects0Delete(r) ==
  /\ router = "projects0"
  /\ Free(r)
  /\ \E actor \in Actors, id \in Ids :
       LET q == Recv("DELETE /:id", actor, id, Null)
           c == ProjectsOwnerCheck(projects, id, actor)
       IN IF c # Null THEN Reply(r, q, c.status, c.body) ELSE Await(r, q, "write")
  /\ received' = received + 1
  /\ UNCHANGED <<router, users, projects, contractors, nextId>>

\* the acknowledgment of the first revision carries no id
Projects0DeleteDelete(r) ==
  /\ router = "projects0"
  /\ req[r].pc = "write" /\ req[r].op = "DELETE /:id"
  /\ LET res == RowDelete(projects, req[r].id)
     IN IF res.ok
          THEN /\ projects' = res.table
               /\ Reply(r, req[r], 200, [success |-> TRUE, message |-> "Project deleted"])
          ELSE /\ projects' = projects
               /\ LET c == Catch(req[r].op, res.code) IN Reply(r, req[r], c.status, c.body)
  /\ UNCHANGED <<router, users, contractors, nextId, received>>

Projects0Next(r) ==
  \/ Projects0Public(r)
  \/ Projects0List(r)
  \/ Projects0Get(r)
  \/ Projects0Post(r) \/ Projects0PostCreate(r)
  \/ Projects0Patch(r) \/ Projects0PatchUpdate(r)
  \/ Projects0Delete(r) \/ Projects0DeleteDelete(r)

(***************************************************************************)
(* Contractors: request bodies and the Contractor table.                   *)
(***************************************************************************)
CBody(name, email, phone, company, trades, rating) ==
  [name |-> name, email |-> email, phone |-> phone, company |-> company,
   trades |-> trades, rating |-> rating]

\* bodies of POST /api/contractors
ContractorPostBodies ==
  { CBody(Str(<<"A", "c">>), Str(<<"A", "@", "x", ".", "c">>), Str(<<" ", "5">>),
          Undefined, List(<< Str(<<"t">>) >>), Str(<<"4">>)),
    CBody(Str(<<"B", "o">>), Str(<<"a", "@", "x", ".", "c">>), Undefined,
          Undefined, Undefined, Undefined),
    CBody(Str(<<"B", "o">>), Str(<<" ", "a", "@", "x", ".", "c">>), Undefined,
          Undefined, Undefined, Undefined),
    CBody(Str(<<"C", "y">>), Str(<<"b", "@", "y", ".", "c">>), Undefined,
          Undefined, Undefined, Undefined) }

\* bodies of PATCH /api/contractors/:id (the first names another owner)
ContractorPatchBodies ==
  { CBody(Str(<<"Z", " ">>), Undefined, Undefined, Undefined, Undefined, Undefined)
      @@ [userId |-> Str(U2)],
    CBody(Undefined, Str(<<"A", "@", "x", ".", "c">>), Str(<< >>),
          Undefined, Undefined, Undefined),
    CBody(Str(<<" ">>), Str(<<"x">>), Undefined, Undefined, Undefined, Undefined) }

\* column defaults of the Contractor table
ContractorDefaults == [phone |-> Null, company |-> Null, rating |-> Num(0)]

\* unique index on Contractor.email
ContractorEmailTaken(table, email, except) ==
  \E i \in DOMAIN table : i # except /\ table[i].email = email

\* prisma.contractor.create({ data })
ContractorCreate(table, us, id, data) ==
  IF ~OwnerExists(us, data.userId)
    THEN Thrown("P2003", table)
    ELSE IF ContractorEmailTaken(table, data.email, 0)
      THEN Thrown("P2002", table)
      ELSE LET row == [f \in DOMAIN data \cup DOMAIN ContractorDefaults \cup {"id", "createdAt"} |->
                         CASE f = "id" -> id
                           [] f = "createdAt" -> id
                           [] f = "userId" -> data.userId
                           [] f \in DOMAIN data -> Given(data[f])
                           [] OTHER -> ContractorDefaults[f]]
           IN Done([i \in DOMAIN table \cup {id} |-> IF i = id THEN row ELSE table[i]], row)

\* an update on a table without the unique index on email
ContractorUpdateNoIndex(table, id, data) ==
  IF id \notin DOMAIN table
    THEN Thrown("P2025", table)
    ELSE LET row == Merge(table[id], data)
         IN Done([table EXCEPT ![id] = row], row)

\* prisma.contractor.update({ where: { id }, data })
ContractorUpdate(table, id, data) ==
  IF id \notin DOMAIN table
    THEN Thrown("P2025", table)
    ELSE IF "email" \in DOMAIN data /\ ContractorEmailTaken(table, data.email, id)
      THEN Thrown("P2002", table)
      ELSE LET row == Merge(table[id], data)
           IN Done([table EXCEPT ![id] = row], row)

\* code units in ascending order, for string comparison
Ascii ==
  <<" ", ".", "0", "1", "2", "3", "4", "5", "6", "7", "8", "9", "@",
    "A", "B", "C", "D", "E", "F", "G", "H", "I", "J", "K", "L", "M",
    "N", "O", "P", "Q", "R", "S", "T", "U", "V", "W", "X", "Y", "Z", "_",
    "a", "b", "c", "d", "e", "f", "g", "h", "i", "j", "k", "l", "m",
    "n", "o", "p", "q", "r", "s", "t", "u", "v", "w", "x", "y", "z">>

CharCode(c) == CHOOSE i \in 1..Len(Ascii) : Ascii[i] = c

RECURSIVE StrLeq(_, _)
\* a <= b in code-unit order
StrLeq(a, b) ==
  IF Len(a) = 0 THEN TRUE
  ELSE IF Len(b) = 0 THEN FALSE
  ELSE IF Head(a) = Head(b) THEN StrLeq(Tail(a), Tail(b))
  ELSE CharCode(Head(a)) < CharCode(Head(b))

RECURSIVE ByName(_)
\* orderBy: { name: 'asc' } (rows of equal name in insertion order)
ByName(rows) ==
  IF rows = {} THEN << >>
  ELSE LET m == CHOOSE x \in rows : \A y \in rows :
                  \/ x.name # y.name /\ StrLeq(x.name.v, y.name.v)
                  \/ x.name = y.name /\ x.id <= y.id
       IN <<m>> \o ByName(rows \ {m})

(***************************************************************************)
(* Router "contractors": the current revision of routes/contractors.       *)
(***************************************************************************)
\* GET /: ensureUser ...
ContractorsList(r) ==
  /\ router = "contractors"
  /\ Free(r)
  /\ \E actor \in Actors : EnsureUserGetUser(r, Recv("GET /", actor, 0, Null))
  /\ received' = received + 1
  /\ UNCHANGED <<router, users, projects, contractors, nextId>>

\* ... then findMany({ where: { userId }, orderBy: name, include: user })
ContractorsListFindMany(r) ==
  /\ router = "contractors"
  /\ req[r].pc = "main" /\ req[r].op = "GET /"
  /\ LET hit == {c \in Rows(contractors) : c.userId = req[r].actor}
     IN Reply(r, req[r], 200, AllWithUser(ByName(hit), users))
  /\ UNCHANGED <<router, users, projects, contractors, nextId, received>>

\* the ownership check of GET /:id, PATCH /:id and DELETE /:id
ContractorsOwnerCheck(table, id, clerkUserId) ==
  IF id \notin DOMAIN table
    THEN [status |-> 404, body |-> [error |-> "Contractor not found"]]
    ELSE IF table[id].userId # clerkUserId
           THEN [status |-> 403, body |-> [error |-> "Access denied"]]
           ELSE Null

\* GET /:id
ContractorsGet(r) ==
  /\ router = "contractors"
  /\ Free(r)
  /\ \E actor \in Actors, id \in Ids :
       LET q == Recv("GET /:id", actor, id, Null)
           c == ContractorsOwnerCheck(contractors, id, actor)
       IN IF c # Null THEN Reply(r, q, c.status, c.body)
          ELSE Reply(r, q, 200, WithUser(contractors[id], users))
  /\ received' = received + 1
  /\ UNCHANGED <<router, users, projects, contractors, nextId>>

\* the `data` of prisma.contractor.create in POST /
ContractorsPostData(body, clerkUserId) ==
  [name |-> Str(Trim(body.name.v)),
   email |-> Str(ToLowerCase(Trim(body.email.v))),
   phone |-> OrElse(OptTrim(body.phone), Null),
   company |-> OrElse(OptTrim(body.company), Null),
   trades |-> OrElse(body.trades, List(<< >>)),
   rating |-> IF Truthy(body.rating) THEN ParseFloat(body.rating) ELSE Num(0),
   userId |-> clerkUserId]

\* the synchronous validation of POST /: the 400 it answers, or Null
ContractorsPostValidate(body) ==
  IF ~Truthy(body.name) \/ ~Truthy(body.email)
    THEN [status |-> 400, body |-> [error |-> "Validation failed", message |-> "Name and email are required"]]
    ELSE IF ~EmailRegexTest(body.email.v)
      THEN [status |-> 400, body |-> [error |-> "Validation failed", message |-> "Invalid email format"]]
      ELSE Null

\* POST /: validation, ensureUser ...
ContractorsPost(r) ==
  /\ router = "contractors"
  /\ Free(r)
  /\ \E actor \in Actors, body \in ContractorPostBodies :
       LET q == Recv("POST /", actor, 0, body)
           v == ContractorsPostValidate(body)
       IN IF v # Null THEN Reply(r, q, v.status, v.body)
          ELSE EnsureUserGetUser(r, q)
  /\ received' = received + 1
  /\ UNCHANGED <<router, users, projects, contractors, nextId>>

\* ... then create; P2002 is answered 409
ContractorsPostCreate(r) ==
  /\ router = "contractors"
  /\ req[r].pc = "main" /\ req[r].op = "POST /"
  /\ LET res == ContractorCreate(contractors, users, nextId,
                                 ContractorsPostData(req[r].body, req[r].actor))
     IN IF res.ok
          THEN /\ contractors' = res.table
               /\ nextId' = nextId + 1
               /\ Reply(r, req[r], 201, WithUser(res.row, users))
          ELSE /\ UNCHANGED <<contractors, nextId>>
               /\ LET c == Catch(req[r].op, res.code) IN Reply(r, req[r], c.status, c.body)
  /\ UNCHANGED <<router, users, projects, received>>

\* the updateData object built by PATCH /:id
ContractorsPatchData(body) ==
  [f \in {g \in DOMAIN body \cap {"name", "email", "phone", "company", "trades", "rating"} :
            body[g] # Undefined} |->
     CASE f = "name" -> Str(Trim(body.name.v))
       [] f = "email" -> Str(ToLowerCase(Trim(body.email.v)))
       [] f = "phone" -> OrElse(OptTrim(body.phone), Null)
       [] f = "company" -> OrElse(OptTrim(body.company), Null)
       [] f = "trades" -> body.trades
       [] f = "rating" -> IF Truthy(body.rating) THEN ParseFloat(body.rating) ELSE Num(0)]

\* PATCH /:id: findUnique and the ownership check ...
ContractorsPatch(r) ==
  /\ router = "contractors"
  /\ Free(r)
  /\ \E actor \in Actors, id \in Ids, body \in ContractorPatchBodies :
       LET q == Recv("PATCH /:id", actor, id, body)
           c == ContractorsOwnerCheck(contractors, id, actor)
       IN IF c # Null THEN Reply(r, q, c.status, c.body) ELSE Await(r, q, "write")
  /\ received' = received + 1
  /\ UNCHANGED <<router, users, projects, contractors, nextId>>

\* ... then update; P2002 is answered 409
ContractorsPatchUpdate(r) ==
  /\ router = "contractors"
  /\ req[r].pc = "write" /\ req[r].op = "PATCH /:id"
  /\ LET res == ContractorUpdate(contractors, req[r].id,
                                 ContractorsPatchData(req[r].body))
     IN IF res.ok
          THEN /\ contractors' = res.table
               /\ Reply(r, req[r], 200, WithUser(res.row, users))
          ELSE /\ contractors' = contractors
               /\ LET c == Catch(req[r].op, res.code) IN Reply(r, req[r], c.status, c.body)
  /\ UNCHANGED <<router, users, projects, nextId, received>>

\* DELETE /:id: findUnique and the ownership check ...
ContractorsDelete(r) ==
  /\ router = "contractors"
  /\ Free(r)
  /\ \E actor \in Actors, id \in Ids :
       LET q == Recv("DELETE /:id", actor, id, Null)
           c == ContractorsOwnerCheck(contractors, id, actor)
       IN IF c # Null THEN Reply(r, q, c.status, c.body) ELSE Await(r, q, "write")
  /\ received' = received + 1
  /\ UNCHANGED <<router, users, projects, contractors, nextId>>

\* ... then delete, acknowledged with the id
ContractorsDeleteDelete(r) ==
  /\ router = "contractors"
  /\ req[r].pc = "write" /\ req[r].op = "DELETE /:id"
  /\ LET res == RowDelete(contractors, req[r].id)
     IN IF res.ok
          THEN /\ contractors' = res.table
               /\ Reply(r, req[r], 200,
                        [success |-> TRUE, message |-> "Contractor deleted successfully",
                         id |-> req[r].id])
          ELSE /\ contractors' = contractors
               /\ LET c == Catch(req[r].op, res.code) IN Reply(r, req[r], c.status, c.body)
  /\ UNCHANGED <<router, users, projects, nextId, received>>

ContractorsNext(r) ==
  \/ ContractorsList(r) \/ ContractorsListFindMany(r)
  \/ ContractorsGet(r)
  \/ ContractorsPost(r) \/ ContractorsPostCreate(r)
  \/ ContractorsPatch(r) \/ ContractorsPatchUpdate(r)
  \/ ContractorsDelete(r) \/ ContractorsDeleteDelete(r)

(***************************************************************************)
(* Router "contractorsB": the compact contractors router (list, create,    *)
(* delete; no joins, no email syntax check, no rating).                    *)
(***************************************************************************)
ContractorsBList(r) ==
  /\ router = "contractorsB"
  /\ Free(r)
  /\ \E actor \in Actors : EnsureUserGetUser(r, Recv("GET /", actor, 0, Null))
  /\ received' = received + 1
  /\ UNCHANGED <<router, users, projects, contractors, nextId>>

ContractorsBListFindMany(r) ==
  /\ router = "contractorsB"
  /\ req[r].pc = "main" /\ req[r].op = "GET /"
  /\ Reply(r, req[r], 200, ByName({c \in Rows(contractors) : c.userId = req[r].actor}))
  /\ UNCHANGED <<router, users, projects, contractors, nextId, received>>

\* the `data` of prisma.contractor.create in the compact POST /
ContractorsBPostData(body, clerkUserId) ==
  [name |-> Str(Trim(body.name.v)),
   email |-> Str(ToLowerCase(Trim(body.email.v))),
   phone |-> OrElse(OptTrim(body.phone), Null),
   company |-> OrElse(OptTrim(body.company), Null),
   trades |-> OrElse(body.trades, List(<< >>)),
   userId |-> clerkUserId]

\* if (!name || !email) return 400
ContractorsBPostValidate(body) ==
  IF ~Truthy(body.name) \/ ~Truthy(body.email)
    THEN [status |-> 400, body |-> [error |-> "Name and email required"]]
    ELSE Null

ContractorsBPost(r) ==
  /\ router = "contractorsB"
  /\ Free(r)
  /\ \E actor \in Actors, body \in ContractorPostBodies :
       LET q == Recv("POST /", actor, 0, body)
           v == ContractorsBPostValidate(body)
       IN IF v # Null THEN Reply(r, q, v.status, v.body)
          ELSE EnsureUserGetUser(r, q)
  /\ received' = received + 1
  /\ UNCHANGED <<router, users, projects, contractors, nextId>>

ContractorsBPostCreate(r) ==
  /\ router = "contractorsB"
  /\ req[r].pc = "main" /\ req[r].op = "POST /"
  /\ LET res == ContractorCreate(contractors, users, nextId,
                                 ContractorsBPostData(req[r].body, req[r].actor))
     IN IF res.ok
          THEN /\ contractors' = res.table
               /\ nextId' = nextId + 1
               /\ Reply(r, req[r], 201, res.row)
          ELSE /\ UNCHANGED <<contractors, nextId>>
               /\ LET c == Catch(req[r].op, res.code) IN Reply(r, req[r], c.status, c.body)
  /\ UNCHANGED <<router, users, projects, received>>

\* if (!existing || existing.userId !== req.auth.userId) return 404
ContractorsBOwnerCheck(table, id, clerkUserId) ==
  IF id \notin DOMAIN table \/ table[id].userId # clerkUserId
    THEN [status |-> 404, body |-> [error |-> "Not found"]]
    ELSE Null

ContractorsBDelete(r) ==
  /\ router = "contractorsB"
  /\ Free(r)
  /\ \E actor \in Actors, id \in Ids :
       LET q == Recv("DELETE /:id", actor, id, Null)
           c == ContractorsBOwnerCheck(contractors, id, actor)
       IN IF c # Null THEN Reply(r, q, c.status, c.body) ELSE Await(r, q, "write")
  /\ received' = received + 1
  /\ UNCHANGED <<router, users, projects, contractors, nextId>>

\* res.json({ success: true })
ContractorsBDeleteDelete(r) ==
  /\ router = "contractorsB"
  /\ req[r].pc = "write" /\ req[r].op = "DELETE /:id"
  /\ LET res == RowDelete(contractors, req[r].id)
     IN IF res.ok
          THEN /\ contractors' = res.table
               /\ Reply(r, req[r], 200, [success |-> TRUE])
          ELSE /\ contractors' = contractors
               /\ LET c == Catch(req[r].op, res.code) IN Reply(r, req[r], c.status, c.body)
  /\ UNCHANGED <<router, users, projects, nextId, received>>

ContractorsBNext(r) ==
  \/ ContractorsBList(r) \/ ContractorsBListFindMany(r)
  \/ ContractorsBPost(r) \/ ContractorsBPostCreate(r)
  \/ ContractorsBDelete(r) \/ ContractorsBDeleteDelete(r)

(***************************************************************************)
(* Router "contractors0": the first revision of routes/contractors (list   *)
(* of every row, create with the fields as received).                      *)
(***************************************************************************)
\* GET /: findMany({ orderBy: name }) with no owner filter
Contractors0List(r) ==
  /\ router = "contractors0"
  /\ Free(r)
  /\ \E actor \in Actors :
       Reply(r, Recv("GET /", actor, 0, Null), 200, ByName(Rows(contractors)))
  /\ received' = received + 1
  /\ UNCHANGED <<router, users, projects, contractors, nextId>>

\* the `data` of prisma.contractor.create in the first revision's POST /
Contractors0PostData(body, userId) ==
  [name |-> body.name,
   email |-> body.email,
   phone |-> body.phone,
   company |-> body.company,
   trades |-> OrElse(body.trades, List(<< >>)),
   userId |-> userId]

\* if (!name || !email) return 400
Contractors0PostValidate(body) ==
  IF ~Truthy(body.name) \/ ~Truthy(body.email)
    THEN [status |-> 400,
          body |-> [error |-> "Validation failed", message |-> "Name and email are required"]]
    ELSE Null

Contractors0Post(r) ==
  /\ router = "contractors0"
  /\ Free(r)
  /\ \E actor \in Actors, body \in ContractorPostBodies :
       LET q == Recv("POST /", actor, 0, body)
           v == Contractors0PostValidate(body)
       IN IF v # Null THEN Reply(r, q, v.status, v.body) ELSE Await(r, q, "main")
  /\ received' = received + 1
  /\ UNCHANGED <<router, users, projects, contractors, nextId>>

\* every failure of the create, the unique violation included, is answered 500
Contractors0PostCreate(r) ==
  /\ router = "contractors0"
  /\ req[r].pc = "main" /\ req[r].op = "POST /"
  /\ LET res == ContractorCreate(contractors, users, nextId,
                                 Contractors0PostData(req[r].body, req[r].actor))
     IN IF res.ok
          THEN /\ contractors' = res.table
               /\ nextId' = nextId + 1
               /\ Reply(r, req[r], 201, res.row)
          ELSE /\ UNCHANGED <<contractors, nextId>>
               /\ LET c == Catch(req[r].op, res.code) IN Reply(r, req[r], c.status, c.body)
  /\ UNCHANGED <<router, users, projects, received>>

Contractors0Next(r) ==
  \/ Contractors0List(r)
  \/ Contractors0Post(r) \/ Contractors0PostCreate(r)

(***************************************************************************)
(* The system.                                                             *)
(***************************************************************************)
\* the routes of the router in service that are mounted behind requireAuth
AuthRoutes ==
  CASE router = "projects" ->
         {"GET /", "GET /:id", "POST /", "PATCH /:id", "DELETE /:id", "GET /:id/status"}
    [] router \in {"projects0", "contractors"} ->
         {"GET /", "GET /:id", "POST /", "PATCH /:id", "DELETE /:id"}
    [] router = "contractorsB" -> {"GET /", "POST /", "DELETE /:id"}
    [] router = "contractors0" -> {"GET /", "POST /"}

\* requireAuth answers 401: the header is absent or not a bearer header, or
\* verifyToken throws or answers claims without subject; next() is not called
RequireAuthReject(r) ==
  /\ Free(r)
  /\ \E op \in AuthRoutes, authHeader \in Headers :
       LET a == RequireAuth(authHeader)
           q == [Idle EXCEPT !.pc = "entered", !.op = op, !.header = authHeader]
       IN /\ ~a.next
          /\ Reply(r, q, a.status, a.body)
  /\ received' = received + 1
  /\ UNCHANGED <<router, users, projects, contractors, nextId>>

\* the requests that reach a handler
Next ==
  \E r \in Slots :
    \/ EnsureUserUpsert(r) \/ EnsureUserFallback(r)
    \/ ProjectsNext(r)
    \/ Projects0Next(r)
    \/ ContractorsNext(r)
    \/ ContractorsBNext(r)
    \/ Contractors0Next(r)

Spec == Init /\ [][Next]_vars

\* all traffic: the requests that reach a handler and those requireAuth
\* turns away
NextAuth == Next \/ \E r \in Slots : RequireAuthReject(r)

SpecAuth == Init /\ [][NextAuth]_vars

(***************************************************************************)
(* Store failures. Any awaited store call may throw (the database cannot   *)
(* be reached, P1001); the enclosing try/catch decides what follows.       *)
(***************************************************************************)
\* the routes of the router in service whose first awaited call is a store
\* query (findMany or findUnique)
FirstStoreRoutes ==
  CASE router = "projects" ->
         {"GET /public", "GET /:id", "PATCH /:id", "DELETE /:id", "GET /:id/status"}
    [] router = "projects0" ->
         {"GET /public", "GET /", "GET /:id", "PATCH /:id", "DELETE /:id"}
    [] router = "contractors" -> {"GET /:id", "PATCH /:id", "DELETE /:id"}
    [] router = "contractorsB" -> {"DELETE /:id"}
    [] router = "contractors0" -> {"GET /"}

\* the first store query of a handler throws: its catch block answers 500
\* (the query never reads the id the request names; the request names 0)
ArrivalStoreFails(r) ==
  /\ Free(r)
  /\ \E op \in FirstStoreRoutes, actor \in Actors :
       LET q == Recv(op, IF op = "GET /public" THEN << >> ELSE actor, 0, Null)
           c == Catch(op, "P1001")
       IN Reply(r, q, c.status, c.body)
  /\ received' = received + 1
  /\ UNCHANGED <<router, users, projects, contractors, nextId>>

\* a handler without a catch block: the rejection is never handled and the
\* request is left without a response
StoreFailsUncaught(r) ==
  /\ req[r].pc \in {"upsert", "fallback", "main", "write"}
  /\ Await(r, req[r], "hung")
  /\ UNCHANGED <<router, users, projects, contractors, nextId, received>>

\* the store call a request awaits throws: in ensureUser's try block the
\* catch block runs (its own upsert follows); in ensureUser's catch block
\* or in the handler, the handler's catch block answers
StoreFails(r) ==
  /\ req[r].pc \in {"upsert", "fallback", "main", "write"}
  /\ IF req[r].pc = "upsert"
       THEN Await(r, req[r], "fallback")
       ELSE LET c == Catch(req[r].op, "P1001")
            IN Reply(r, req[r], c.status, c.body)
  /\ UNCHANGED <<router, users, projects, contractors, nextId, received>>

\* the traffic of Next with a store that may fail
NextFaults == Next \/ \E r \in Slots : ArrivalStoreFails(r) \/ StoreFails(r)

SpecFaults == Init /\ [][NextFaults]_vars

(***************************************************************************)
(* Properties.                                                             *)
(***************************************************************************)
\* the table the router in service works on
Resource == IF router \in {"projects", "projects0"} THEN projects ELSE contractors

UserRows(clerkId) == {u \in users : u.clerkId = clerkId}

\* the row ensureUser's catch block creates
PlaceholderRow(clerkId) ==
  [clerkId |-> clerkId, email |-> TempEmail(clerkId), name |-> DefaultName]

ById == {"GET /:id", "PATCH /:id", "DELETE /:id"}

\* request r takes a step of ensureUser
EnsureUserStep(r) == req[r].pc \in {"upsert", "fallback"} /\ req'[r] # req[r]

\* request r takes the step of ensureUser's catch block
FallbackStep(r) == req[r].pc = "fallback" /\ req'[r] # req[r]

\* C1: however the lookup and upsert steps of concurrent ensureUser calls
\* interleave, and whether each lookup succeeds or fails, every step of a call
\* returns a User row of the caller or moves on to the catch block (it never
\* ends the request with an error), and the store holds at most one User row
\* per externalId, exactly one once a call has returned.
C1_ConcurrentEnsureUser ==
  [][\A r \in Slots :
       EnsureUserStep(r) =>
         /\ \/ req'[r].pc = "main"
            \/ req[r].pc = "upsert" /\ req'[r].pc = "fallback"
         /\ \A a \in Actors : Cardinality(UserRows(a)') <= 1
         /\ req'[r].pc = "main" =>
              /\ req'[r].user \in users'
              /\ req'[r].user.clerkId = req[r].actor
              /\ UserRows(req[r].actor)' = {req'[r].user}]_vars

\* two overlapping requests of U1 have both returned from ensureUser, one
\* through the failed lookup and one through the successful one, and the
\* store holds one row for U1
C1_Witness ==
  /\ req[1].pc = "main" /\ req[2].pc = "main"
  /\ req[1].actor = U1 /\ req[2].actor = U1
  /\ req[1].user # req[2].user
  /\ Cardinality(UserRows(U1)) = 1

\* C2: the step of ensureUser that follows a failed lookup never ends the
\* request with an error: it returns the caller's stored User row, which is
\* the row that existed before or, when none did, a new row with email
\* <externalId>@temp.com and name "User".
C2_FallbackReturnsRow ==
  [][\A r \in Slots :
       FallbackStep(r) =>
         /\ req'[r].pc = "main"
         /\ req'[r].user \in users'
         /\ req'[r].user = IF UserRows(req[r].actor) = {}
                             THEN PlaceholderRow(req[r].actor)
                             ELSE CHOOSE u \in UserRows(req[r].actor) : TRUE]_vars

\* a request whose lookup failed (its email local was never assigned) holds
\* the placeholder row ensureUser created and returned
C2_Witness ==
  \E r \in Slots :
    /\ req[r].pc = "main" /\ req[r].email = Null
    /\ req[r].user = PlaceholderRow(req[r].actor)
    /\ req[r].user \in users

\* C3: the step of ensureUser that follows a failed lookup leaves the User
\* table as it is when the externalId already has a row, and adds exactly
\* the placeholder row when it has none.
C3_FallbackKeepsProfile ==
  [][\A r \in Slots :
       FallbackStep(r) =>
         users' = IF UserRows(req[r].actor) = {}
                    THEN users \cup {PlaceholderRow(req[r].actor)}
                    ELSE users]_vars

\* a request of U1 whose lookup failed holds U1's row with the profile an
\* earlier request stored, not the placeholders
C3_Witness ==
  \E r \in Slots :
    /\ req[r].pc = "main" /\ req[r].email = Null /\ req[r].actor = U1
    /\ req[r].user \in users
    /\ req[r].user.email # TempEmail(U1)
    /\ req[r].user.name # DefaultName

\* C4: a get, update or delete of an existing row by an actor who is not its
\* owner is answered 403, and a list answered to an actor holds only rows
\* that actor owns.
C4_NonOwnerDenied ==
  \A r \in Slots :
    req[r].pc = "done" =>
      /\ (/\ req[r].op \in ById
          /\ req[r].id \in DOMAIN Resource
          /\ Resource[req[r].id].userId # req[r].actor)
           => req[r].resp.status = 403
      /\ (req[r].op = "GET /" /\ req[r].resp.status = 200)
           => \A i \in 1..Len(req[r].resp.body) :
                req[r].resp.body[i].userId = req[r].actor

\* the row at id changed or was removed between table and its successor
Touched(table, after, id) == id \notin DOMAIN after \/ after[id] # table[id]

\* the owner's update or delete of the row at id completes in this step
OwnerWrites(table, id) ==
  \E r \in Slots :
    /\ req[r].pc = "write" /\ req[r].op \in {"PATCH /:id", "DELETE /:id"}
    /\ req[r].id = id
    /\ req[r].actor = table[id].userId
    /\ req'[r].pc = "done" /\ req'[r].resp.status = 200

\* C5: in every step that changes or removes a Project or Contractor row,
\* an update or delete request of the row's owner completes with success;
\* no other step, and no request of another actor, touches the row.
C5_OnlyOwnerWrites ==
  [][/\ \A id \in DOMAIN projects :
          Touched(projects, projects', id) => OwnerWrites(projects, id)
     /\ \A id \in DOMAIN contractors :
          Touched(contractors, contractors', id) => OwnerWrites(contractors, id)]_vars

\* the owner's delete has removed a row while another request is in flight
C5_Witness ==
  \E r \in Slots :
    /\ req[r].pc = "done" /\ req[r].op = "DELETE /:id"
    /\ req[r].resp.status = 200
    /\ req[r].id \notin DOMAIN Resource
    /\ \E s \in Slots : s # r /\ req[s].pc \notin {"idle", "done"}

\* C6: get, update and delete are answered 404 on an id with no row and 403
\* on an id whose row another user owns: a 404 is never the answer for a row
\* that exists.
C6_NotFoundVsDenied ==
  \A r \in Slots :
    (req[r].pc = "done" /\ req[r].op \in ById) =>
      /\ (req[r].id \in DOMAIN Resource /\ Resource[req[r].id].userId # req[r].actor)
           => req[r].resp.status = 403
      /\ req[r].resp.status = 404 => req[r].id \notin DOMAIN Resource
      /\ req[r].id = 0 => req[r].resp.status = 404

\* C7: a create of a Contractor with a name and an email stores the email
\* trimmed and lower-cased when it is answered 201, and is answered 409 when
\* that trimmed, lower-cased email is the stored email of another row.
C7_DuplicateEmailConflict ==
  \A r \in Slots :
    (/\ router \in {"contractors", "contractorsB", "contractors0"}
     /\ req[r].pc = "done" /\ req[r].op = "POST /"
     /\ Truthy(req[r].body.name) /\ Truthy(req[r].body.email)) =>
      LET e == Str(ToLowerCase(Trim(req[r].body.email.v)))
          created(id) == req[r].resp.status = 201 /\ req[r].resp.body.id = id
      IN /\ req[r].resp.status = 201 =>
              contractors[req[r].resp.body.id].email = e
         /\ (\E id \in DOMAIN contractors :
               contractors[id].email = e /\ ~created(id))
              => req[r].resp.status = 409

\* a body field the request does not carry
Absent(body, f) == f \notin DOMAIN body \/ body[f] = Undefined

\* C8: the step in which an update of a Project or Contractor succeeds
\* leaves every field of the row that the request body does not carry (its
\* id and ownerId among them) with the value it had, and every other row as
\* it was.
C8_PartialUpdateFrame ==
  [][\A r \in Slots :
       (/\ req[r].pc = "write" /\ req[r].op = "PATCH /:id"
        /\ req'[r].pc = "done" /\ req'[r].resp.status = 200) =>
         LET id == req[r].id
         IN /\ id \in DOMAIN Resource /\ DOMAIN Resource' = DOMAIN Resource
            /\ DOMAIN Resource'[id] = DOMAIN Resource[id]
            /\ \A f \in DOMAIN Resource[id] :
                 Absent(req[r].body, f) => Resource'[id][f] = Resource[id][f]
            /\ \A j \in DOMAIN Resource \ {id} : Resource'[j] = Resource[j]]_vars

\* an update carrying only a name has succeeded on a Project whose
\* description is "X": the name is the new one, the description still "X"
C8_Witness ==
  \E r \in Slots :
    /\ router = "projects"
    /\ req[r].pc = "done" /\ req[r].op = "PATCH /:id" /\ req[r].resp.status = 200
    /\ req[r].body.name # Undefined /\ req[r].body.description = Undefined
    /\ req[r].id \in DOMAIN projects
    /\ projects[req[r].id].name = Str(<<"Y">>)
    /\ projects[req[r].id].description = Str(<<"X">>)

\* C9: a Project create answered 201 carries status PLANNING and the
\* requester as owner; an update by another user is answered 403; a delete
\* answered 200 carries the deleted id; a get of an id with no row is
\* answered 404.
C9_ProjectLifecycle ==
  \A r \in Slots :
    (router \in {"projects", "projects0"} /\ req[r].pc = "done") =>
      /\ (req[r].op = "POST /" /\ req[r].resp.status = 201) =>
           /\ req[r].resp.body.status = Planning
           /\ req[r].resp.body.userId = req[r].actor
      /\ (/\ req[r].op = "PATCH /:id"
          /\ req[r].id \in DOMAIN projects
          /\ projects[req[r].id].userId # req[r].actor) => req[r].resp.status = 403
      /\ (req[r].op = "DELETE /:id" /\ req[r].resp.status = 200) =>
           /\ "id" \in DOMAIN req[r].resp.body
           /\ req[r].resp.body.id = req[r].id
      /\ (req[r].op = "GET /:id" /\ req[r].id \notin DOMAIN projects) =>
           req[r].resp.status = 404

\* C10: the owning user id of every Project row and of every Contractor row
\* is the clerkId of a User row.
C10_OwnerReferencesUser ==
  /\ \A id \in DOMAIN projects : UserRows(projects[id].userId) # {}
  /\ \A id \in DOMAIN contractors : UserRows(contractors[id].userId) # {}

\* a row owned by U1, whose User row ensureUser created on U1's first request
C10_Witness ==
  \E id \in DOMAIN Resource : Resource[id].userId = U1 /\ UserRows(U1) # {}

\* the header is absent, is not a bearer header, or carries a token that
\* fails verification
Unauthenticated(h) ==
  \/ ~Truthy(h)
  \/ ~StartsWith(h.v, BearerPrefix)
  \/ LET v == VerifyToken(Substring(h.v, 7))
     IN ~v.ok \/ ~Truthy(v.sessionClaims.sub)

\* C11: a request to a route behind requireAuth whose Authorization header
\* is absent, is not a bearer header or carries a token that fails
\* verification is answered 401 in the step that receives it, no handler
\* step runs for it, and that step leaves the User, Project and Contractor
\* tables as they were.
C11_UnauthenticatedRejected ==
  [][\A r \in Slots :
       (/\ req'[r] # req[r] /\ req'[r].pc # "idle"
        /\ req'[r].op \in AuthRoutes
        /\ Unauthenticated(req'[r].header)) =>
         /\ Vacant(r)
         /\ req'[r].pc = "done" /\ req'[r].resp.status = 401
         /\ UNCHANGED <<users, projects, contractors, nextId>>]_vars

\* a request with a token that does not verify has been answered 401 while
\* the store holds a row and another request is in its handler
C11_Witness ==
  \E r \in Slots :
    /\ req[r].pc = "done" /\ req[r].resp.status = 401
    /\ req[r].header = Str(BearerPrefix \o <<"x">>)
    /\ DOMAIN Resource # {}
    /\ \E s \in Slots : s # r /\ req[s].pc \notin {"idle", "done"}

\* the operations on Project and Contractor rows
ResourceOps == {"GET /", "GET /:id", "POST /", "PATCH /:id", "DELETE /:id"}

\* C12: the first step of every authenticated request to a list, get, create,
\* update or delete operation enters ensureUser (or answers the validation
\* error 400 before anything else runs); a request reaches the resource
\* store only after its ensureUser call has returned, and it does not enter
\* ensureUser a second time.
C12_EnsureUserFirst ==
  [][\A r \in Slots :
       /\ (/\ Vacant(r) /\ req'[r] # req[r] /\ req'[r].pc # "idle"
           /\ req'[r].op \in ResourceOps) =>
            \/ req'[r].pc \in {"upsert", "fallback"}
            \/ req'[r].pc = "done" /\ req'[r].resp.status = 400
       /\ req[r].pc \in {"main", "write"} =>
            /\ req[r].user # Null
            /\ req'[r].pc \notin {"upsert", "fallback"}]_vars

\* C13: the public project listing answers exactly the Project rows whose
\* isPublic flag is set when it reads the table, each once, whoever owns
\* them, and no entry carries the owning user id.
C13_PublicListing ==
  \A r \in Slots :
    (req[r].pc = "done" /\ req[r].op = "GET /public") =>
      LET list == req[r].resp.body
      IN /\ req[r].resp.status = 200
         /\ {list[i].id : i \in 1..Len(list)} =
              {id \in DOMAIN projects : projects[id].isPublic = Bool(TRUE)}
         /\ Len(list) = Cardinality({list[i].id : i \in 1..Len(list)})
         /\ \A i \in 1..Len(list) :
              /\ "userId" \notin DOMAIN list[i] /\ "user" \notin DOMAIN list[i]
              /\ \A f \in DOMAIN list[i] : list[i][f] = projects[list[i].id][f]

\* the listing has answered one public row of U1 while U2 owns a row whose
\* flag is unset
C13_Witness ==
  \E r \in Slots :
    /\ req[r].pc = "done" /\ req[r].op = "GET /public"
    /\ Len(req[r].resp.body) = 1
    /\ projects[req[r].resp.body[1].id].userId = U1
    /\ \E id \in DOMAIN projects :
         projects[id].userId = U2 /\ projects[id].isPublic = Bool(FALSE)


\* the positions a request at position pc may move to in one step
Successors(pc) ==
  CASE pc \in {"idle", "done"} -> {"idle", "upsert", "fallback", "main", "write", "done"}
    [] pc = "upsert" -> {"fallback", "main"}
    [] pc = "fallback" -> {"main", "done"}
    [] pc = "main" -> {"write", "done"}
    [] pc = "write" -> {"done"}
    [] OTHER -> {}

\* the outcomes a handler sends
Outcomes == {200, 201, 400, 403, 404, 409, 500}

\* request r takes a step that moves it forward, and when the step answers
\* it, the answer is one outcome, an error outcome leaving the store as it was
OneResponse(r) ==
  /\ req'[r].pc \in Successors(req[r].pc)
  /\ req'[r].pc = "done" =>
       /\ req'[r].resp.status \in Outcomes
       /\ req'[r].resp.status >= 400 =>
            UNCHANGED <<users, projects, contractors, nextId>>
  /\ req'[r].pc # "done" => req'[r].resp = Null

SameEmail(table, id, email) ==
  {i \in DOMAIN table : i # id /\ table[i].email = email}

\* C15: after every step no two Contractor rows store the same email, and
\* the write of an update whose email, as it would be stored, is the email
\* of another row is answered 409 and leaves the Contractor table as it was.
C15_ContractorEmailUnique ==
  [][/\ \A i \in DOMAIN contractors' : SameEmail(contractors', i, contractors'[i].email) = {}
     /\ \A r \in Slots :
          (/\ req[r].pc = "write" /\ req[r].op = "PATCH /:id" /\ req'[r] # req[r]
           /\ router = "contractors"
           /\ req[r].id \in DOMAIN contractors
           /\ req[r].body.email # Undefined
           /\ SameEmail(contractors, req[r].id,
                        Str(ToLowerCase(Trim(req[r].body.email.v)))) # {}) =>
            /\ req'[r].pc = "done" /\ req'[r].resp.status = 409
            /\ contractors' = contractors]_vars

\* an update that would give U1's row the email of U2's row has been
\* answered 409; both rows are stored with their own emails
C15_Witness ==
  \E r \in Slots :
    /\ req[r].pc = "done" /\ req[r].op = "PATCH /:id" /\ req[r].resp.status = 409
    /\ req[r].id \in DOMAIN contractors
    /\ req[r].body.email # Undefined
    /\ contractors[req[r].id].userId = U1
    /\ \E i \in SameEmail(contractors, req[r].id,
                          Str(ToLowerCase(Trim(req[r].body.email.v)))) :
         contractors[i].userId = U2

\* request r takes the write step of its update or delete
WriteStep(r, op) == req[r].pc = "write" /\ req[r].op = op /\ req'[r] # req[r]

\* C16: an id whose row has been removed never has a row again; the write of
\* an update or delete whose row was removed after its ownership check is
\* answered 500 and leaves the table as it was; the write of a delete whose
\* row is still there is answered 200 and removes exactly that row (so of
\* two deletes that both passed the ownership check, the first write is
\* answered 200 and the second 500).
C16_NoResurrection ==
  [][/\ \A id \in 1..(nextId - 1) :
          id \notin DOMAIN Resource => id \notin DOMAIN Resource'
     /\ \A r \in Slots :
          /\ ((WriteStep(r, "PATCH /:id") \/ WriteStep(r, "DELETE /:id"))
              /\ req[r].id \notin DOMAIN Resource) =>
               /\ req'[r].pc = "done" /\ req'[r].resp.status = 500
               /\ Resource' = Resource
          /\ (WriteStep(r, "DELETE /:id") /\ req[r].id \in DOMAIN Resource) =>
               /\ req'[r].pc = "done" /\ req'[r].resp.status = 200
               /\ DOMAIN Resource' = DOMAIN Resource \ {req[r].id}
               /\ \A i \in DOMAIN Resource' : Resource'[i] = Resource[i]]_vars

\* an update of a Project row that passed its ownership check has been
\* answered 500 because a delete removed the row first; the row is absent
C16_Witness ==
  \E r \in Slots :
    /\ router = "projects"
    /\ req[r].pc = "done" /\ req[r].op = "PATCH /:id" /\ req[r].resp.status = 500
    /\ req[r].id \in 1..(nextId - 1)
    /\ req[r].id \notin DOMAIN projects

\* request r takes the step that ends its create request
CreateStep(r) ==
  req[r].op = "POST /" /\ req[r].pc \notin {"idle", "done"} /\ req'[r].pc = "done"

\* C17: no step changes the userId of a Project or Contractor row that it
\* leaves in the table, whatever the body of the update that takes it, and
\* a row a step adds carries the authenticated id of the create request
\* that step answers.
C17_OwnerFixed ==
  [][/\ \A id \in DOMAIN Resource \cap DOMAIN Resource' :
          Resource'[id].userId = Resource[id].userId
     /\ \A id \in DOMAIN Resource' \ DOMAIN Resource :
          \E r \in Slots :
            /\ CreateStep(r)
            /\ req[r].actor \in Actors
            /\ Resource'[id].userId = req[r].actor]_vars

\* U1 has updated its own Project row with a body that names U2 as owner;
\* the update was answered 200 and the row is U1's
C17_Witness ==
  \E r \in Slots :
    /\ router = "projects"
    /\ req[r].pc = "done" /\ req[r].op = "PATCH /:id" /\ req[r].resp.status = 200
    /\ "userId" \in DOMAIN req[r].body /\ req[r].body.userId = Str(U2)
    /\ req[r].id \in DOMAIN projects
    /\ projects[req[r].id].userId = U1

\* a stored text column that holds a non-empty string
NonEmpty(x) == x.t = "string" /\ Len(x.v) > 0

\* every stored Project has a non-empty name and address, and every stored
\* Contractor a non-empty name and an email that is trimmed, lower-case and
\* passes the syntactic check of create
StoredFieldsValid ==
  /\ \A id \in DOMAIN projects :
       NonEmpty(projects[id].name) /\ NonEmpty(projects[id].address)
  /\ \A id \in DOMAIN contractors :
       /\ NonEmpty(contractors[id].name)
       /\ contractors[id].email.t = "string"
       /\ contractors[id].email.v = ToLowerCase(Trim(contractors[id].email.v))
       /\ EmailRegexTest(contractors[id].email.v)

\* C18: under the current Contractor router (the one whose create validates
\* and normalises), after any sequence of create and update requests every
\* stored row has a non-empty name and an email that is trimmed, lower-case
\* and passes the syntactic check of create.
C18_StoredFieldsValid == router = "contractors" => StoredFieldsValid
====
